---------------------------- MODULE Spec2Model ----------------------------
(***************************************************************************)
(* Model of the AI text moderator: the moderation decision pipeline        *)
(* (scorer, threshold, rewrite chain with validation and fallback) and the *)
(* WebSocket ConnectionManager (connect / disconnect / broadcast).         *)
(*                                                                         *)
(* Text is a sequence of one-character strings, so that str.strip, lower,  *)
(* startswith, endswith, slicing and the `in` substring test are computed  *)
(* as Python computes them.  Scores are integers in units of 10^-7, so     *)
(* that 0.5 and 0.5000001 are different scores.                            *)
(***************************************************************************)
EXTENDS Integers, Sequences, FiniteSets, TLC

(***************************************************************************)
(* Python str operations on character sequences                            *)
(***************************************************************************)

\* str.strip() strips these
Whitespace == {" ", "\t", "\n", "\r"}

UpperChars ==
  <<"A","B","C","D","E","F","G","H","I","J","K","L","M",
    "N","O","P","Q","R","S","T","U","V","W","X","Y","Z">>

LowerChars ==
  <<"a","b","c","d","e","f","g","h","i","j","k","l","m",
    "n","o","p","q","r","s","t","u","v","w","x","y","z">>

\* str.lower() on one character
lower_char(c) ==
  IF \E k \in 1..26 : UpperChars[k] = c
    THEN LowerChars[CHOOSE k \in 1..26 : UpperChars[k] = c]
    ELSE c

\* str.lower()
lower(s) == IF s = <<>> THEN <<>> ELSE [i \in 1..Len(s) |-> lower_char(s[i])]

\* s[n:] of Python (n >= 0)
drop(s, n) == SubSeq(s, n + 1, Len(s))

RECURSIVE lstrip(_)
lstrip(s) ==
  IF s # <<>> /\ Head(s) \in Whitespace THEN lstrip(Tail(s)) ELSE s

RECURSIVE rstrip(_)
rstrip(s) ==
  IF s # <<>> /\ s[Len(s)] \in Whitespace THEN rstrip(SubSeq(s, 1, Len(s) - 1)) ELSE s

\* str.strip()
strip(s) == rstrip(lstrip(s))

\* str.startswith / str.endswith
startswith(s, p) == Len(p) <= Len(s) /\ SubSeq(s, 1, Len(p)) = p

endswith(s, p) == Len(p) <= Len(s) /\ SubSeq(s, Len(s) - Len(p) + 1, Len(s)) = p

\* the substring test `p in s`
contains(s, p) ==
  \E i \in 1..(Len(s) - Len(p) + 1) : SubSeq(s, i, i + Len(p) - 1) = p

\* any(word in s for word in words)
any_in(words, s) == \E k \in 1..Len(words) : contains(s, words[k])

(***************************************************************************)
(* String tables of the source                                             *)
(***************************************************************************)

\* main.py clean_rephrased_text: prefixes_to_remove, in list order
prefixes_to_remove ==
  <<
    <<"H","e","r","e","'","s"," ","a"," ","p","o","l","i","t","e"," ","v","e","r","s","i","o","n",":">>,
    <<"R","e","p","h","r","a","s","e","d",":">>,
    <<"P","o","l","i","t","e"," ","v","e","r","s","i","o","n",":">>,
    <<"H","e","r","e","'","s"," ","t","h","e"," ","p","o","l","i","t","e"," ","v","e","r","s","i","o","n",":">>,
    <<"R","e","w","r","i","t","t","e","n",":">>,
    <<"P","o","l","i","t","e",":">>,
    <<"H","e","r","e"," ","i","s"," ","a"," ","p","o","l","i","t","e"," ","v","e","r","s","i","o","n",":">>,
    <<"H","e","r","e"," ","i","s"," ","t","h","e"," ","p","o","l","i","t","e"," ","v","e","r","s","i","o","n",":">>
  >>

\* main.py is_valid_rephrasing: refusal_patterns
refusal_patterns ==
  <<
    <<"i"," ","c","a","n","n","o","t">>,
    <<"i"," ","c","a","n","'","t">>,
    <<"s","o","r","r","y">>,
    <<"i","n","a","p","p","r","o","p","r","i","a","t","e">>,
    <<"u","n","a","b","l","e"," ","t","o">>,
    <<"i","'","m"," ","u","n","a","b","l","e">>,
    <<"n","o","t"," ","a","p","p","r","o","p","r","i","a","t","e">>,
    <<"a","g","a","i","n","s","t"," ","p","o","l","i","c","y">>,
    <<"i"," ","a","p","o","l","o","g","i","z","e">>
  >>

\* main.py create_generic_polite_message: first keyword list
insult_words ==
  <<
    <<"s","t","u","p","i","d">>,
    <<"i","d","i","o","t">>,
    <<"d","u","m","b">>,
    <<"m","o","r","o","n">>
  >>

\* main.py create_generic_polite_message: second keyword list
hate_words ==
  <<
    <<"h","a","t","e">>,
    <<"d","i","s","g","u","s","t","i","n","g">>,
    <<"t","e","r","r","i","b","l","e">>
  >>

\* main.py create_generic_polite_message: third keyword list
silence_words ==
  <<
    <<"s","h","u","t"," ","u","p">>,
    <<"q","u","i","e","t">>,
    <<"b","e"," ","s","i","l","e","n","t">>
  >>

\* main.py create_generic_polite_message: fourth keyword list
ugly_words ==
  <<
    <<"u","g","l","y">>,
    <<"g","r","o","s","s">>,
    <<"h","i","d","e","o","u","s">>
  >>

\* main.py create_generic_polite_message: fifth keyword list
loser_words ==
  <<
    <<"l","o","s","e","r">>,
    <<"f","a","i","l","u","r","e">>,
    <<"w","o","r","t","h","l","e","s","s">>
  >>

\* MsgDisagree: 'I respectfully disagree with that perspective.'
MsgDisagree ==
  <<"I"," ","r","e","s","p","e","c","t","f","u","l","l","y"," ","d","i","s","a","g","r","e","e",
    " ","w","i","t","h"," ","t","h","a","t"," ","p","e","r","s","p","e","c","t","i","v","e",".">>

\* MsgFeelings: "I understand there may be strong feelings about this, but let's keep the discussion respectful."
MsgFeelings ==
  <<"I"," ","u","n","d","e","r","s","t","a","n","d"," ","t","h","e","r","e"," ","m","a","y"," ",
    "b","e"," ","s","t","r","o","n","g"," ","f","e","e","l","i","n","g","s"," ","a","b","o","u",
    "t"," ","t","h","i","s",","," ","b","u","t"," ","l","e","t","'","s"," ","k","e","e","p"," ",
    "t","h","e"," ","d","i","s","c","u","s","s","i","o","n"," ","r","e","s","p","e","c","t","f",
    "u","l",".">>

\* MsgConversation: "I'd prefer if we could have a constructive conversation."
MsgConversation ==
  <<"I","'","d"," ","p","r","e","f","e","r"," ","i","f"," ","w","e"," ","c","o","u","l","d"," ",
    "h","a","v","e"," ","a"," ","c","o","n","s","t","r","u","c","t","i","v","e"," ","c","o","n",
    "v","e","r","s","a","t","i","o","n",".">>

\* MsgHelpful: "I don't think that kind of comment is helpful here."
MsgHelpful ==
  <<"I"," ","d","o","n","'","t"," ","t","h","i","n","k"," ","t","h","a","t"," ","k","i","n","d",
    " ","o","f"," ","c","o","m","m","e","n","t"," ","i","s"," ","h","e","l","p","f","u","l"," ",
    "h","e","r","e",".">>

\* MsgValue: 'Everyone has value and deserves to be treated with respect.'
MsgValue ==
  <<"E","v","e","r","y","o","n","e"," ","h","a","s"," ","v","a","l","u","e"," ","a","n","d"," ",
    "d","e","s","e","r","v","e","s"," ","t","o"," ","b","e"," ","t","r","e","a","t","e","d"," ",
    "w","i","t","h"," ","r","e","s","p","e","c","t",".">>

\* MsgGeneric: "I'd like to express this in a more constructive way."
MsgGeneric ==
  <<"I","'","d"," ","l","i","k","e"," ","t","o"," ","e","x","p","r","e","s","s"," ","t","h","i",
    "s"," ","i","n"," ","a"," ","m","o","r","e"," ","c","o","n","s","t","r","u","c","t","i","v",
    "e"," ","w","a","y",".">>

\* api/index.py, api/moderate.py clean_rephrased_text: prefixes_to_remove, in list order
api_prefixes_to_remove ==
  <<
    <<"H","e","r","e","'","s"," ","a"," ","p","o","l","i","t","e"," ","v","e","r","s","i","o","n",":">>,
    <<"R","e","w","r","i","t","t","e","n"," ","t","e","x","t",":">>,
    <<"P","o","l","i","t","e"," ","v","e","r","s","i","o","n",":">>,
    <<"H","e","r","e"," ","i","s"," ","t","h","e"," ","r","e","w","r","i","t","t","e","n"," ","t","e","x","t",":">>,
    <<"T","h","e"," ","r","e","w","r","i","t","t","e","n"," ","m","e","s","s","a","g","e"," ","i","s",":">>,
    <<"P","O","L","I","T","E"," ","V","E","R","S","I","O","N",":">>,
    <<"R","e","p","h","r","a","s","e","d",":">>
  >>

\* api is_valid_rephrasing: refusal_patterns
api_refusal_patterns ==
  <<
    <<"i"," ","c","a","n","n","o","t">>,
    <<"i"," ","c","a","n","'","t">>,
    <<"i","'","m"," ","u","n","a","b","l","e">>,
    <<"i"," ","a","m"," ","u","n","a","b","l","e">>,
    <<"s","o","r","r","y">>,
    <<"a","p","o","l","o","g","i","z","e">>,
    <<"i","n","a","p","p","r","o","p","r","i","a","t","e">>,
    <<"i"," ","d","o","n","'","t"," ","f","e","e","l"," ","c","o","m","f","o","r","t","a","b","l","e">>,
    <<"i"," ","c","a","n","n","o","t"," ","a","s","s","i","s","t">>
  >>

\* api create_generic_polite_message: first keyword list
api_insult_words ==
  <<
    <<"s","t","u","p","i","d">>,
    <<"d","u","m","b">>,
    <<"i","d","i","o","t">>,
    <<"m","o","r","o","n">>
  >>

\* api create_generic_polite_message: second keyword list
api_hate_words ==
  <<
    <<"h","a","t","e">>,
    <<"a","w","f","u","l">>,
    <<"t","e","r","r","i","b","l","e">>,
    <<"w","o","r","s","t">>
  >>

\* api create_generic_polite_message: third keyword list
api_silence_words ==
  <<
    <<"s","h","u","t"," ","u","p">>,
    <<"s","h","u","t">>,
    <<"q","u","i","e","t">>
  >>

\* api create_generic_polite_message: fourth keyword list
api_disagree_words ==
  <<
    <<"w","r","o","n","g">>,
    <<"d","i","s","a","g","r","e","e">>,
    <<"n","o">>
  >>

\* api create_generic_polite_message: fifth keyword list
api_ugly_words ==
  <<
    <<"u","g","l","y">>,
    <<"b","a","d">>,
    <<"t","r","a","s","h">>
  >>

\* ApiMsgApproach: "I don't think that's the best approach."
ApiMsgApproach ==
  <<"I"," ","d","o","n","'","t"," ","t","h","i","n","k"," ","t","h","a","t","'","s"," ","t","h",
    "e"," ","b","e","s","t"," ","a","p","p","r","o","a","c","h",".">>

\* ApiMsgComfortable: "I'm not comfortable with this."
ApiMsgComfortable ==
  <<"I","'","m"," ","n","o","t"," ","c","o","m","f","o","r","t","a","b","l","e"," ","w","i","t",
    "h"," ","t","h","i","s",".">>

\* ApiMsgPause: "I'd prefer if we could pause this conversation."
ApiMsgPause ==
  <<"I","'","d"," ","p","r","e","f","e","r"," ","i","f"," ","w","e"," ","c","o","u","l","d"," ",
    "p","a","u","s","e"," ","t","h","i","s"," ","c","o","n","v","e","r","s","a","t","i","o","n",
    ".">>

\* ApiMsgPerspective: 'I have a different perspective on this.'
ApiMsgPerspective ==
  <<"I"," ","h","a","v","e"," ","a"," ","d","i","f","f","e","r","e","n","t"," ","p","e","r","s",
    "p","e","c","t","i","v","e"," ","o","n"," ","t","h","i","s",".">>

\* ApiMsgStandards: "I don't think this meets our standards."
ApiMsgStandards ==
  <<"I"," ","d","o","n","'","t"," ","t","h","i","n","k"," ","t","h","i","s"," ","m","e","e","t",
    "s"," ","o","u","r"," ","s","t","a","n","d","a","r","d","s",".">>

\* ApiMsgClarify: 'Could you help me understand this better?'
ApiMsgClarify ==
  <<"C","o","u","l","d"," ","y","o","u"," ","h","e","l","p"," ","m","e"," ","u","n","d","e","r",
    "s","t","a","n","d"," ","t","h","i","s"," ","b","e","t","t","e","r","?">>

\* ApiMsgGeneric: "I'd like to express this more constructively."
ApiMsgGeneric ==
  <<"I","'","d"," ","l","i","k","e"," ","t","o"," ","e","x","p","r","e","s","s"," ","t","h","i",
    "s"," ","m","o","r","e"," ","c","o","n","s","t","r","u","c","t","i","v","e","l","y",".">>

\* api/moderate.py simple_toxicity_detection: toxic_keywords (with its repeated entries)
toxic_keywords ==
  <<
    <<"i","d","i","o","t">>,
    <<"s","t","u","p","i","d">>,
    <<"d","u","m","b">>,
    <<"m","o","r","o","n">>,
    <<"h","a","t","e">>,
    <<"k","i","l","l">>,
    <<"m","u","r","d","e","r">>,
    <<"h","a","t","e">>,
    <<"a","w","f","u","l">>,
    <<"t","e","r","r","i","b","l","e">>,
    <<"w","o","r","s","t">>,
    <<"u","g","l","y">>,
    <<"s","t","u","p","i","d">>,
    <<"d","u","m","b">>,
    <<"f","u","c","k">>,
    <<"s","h","i","t">>,
    <<"b","i","t","c","h">>,
    <<"a","s","s","h","o","l","e">>,
    <<"d","i","c","k">>,
    <<"p","u","s","s","y">>,
    <<"c","u","n","t">>,
    <<"n","i","g","g","e","r">>,
    <<"f","a","g">>
  >>

\* TxtStupid: 'You are so stupid'
TxtStupid ==
  <<"Y","o","u"," ","a","r","e"," ","s","o"," ","s","t","u","p","i","d">>

\* TxtExplain: 'Can you explain?'
TxtExplain ==
  <<"C","a","n"," ","y","o","u"," ","e","x","p","l","a","i","n","?">>

\* TxtHate: ' I hate this '
TxtHate ==
  <<" ","I"," ","h","a","t","e"," ","t","h","i","s"," ">>

\* TxtGeneric: "I'd like to express this in a more constructive way."
TxtGeneric ==
  <<"I","'","d"," ","l","i","k","e"," ","t","o"," ","e","x","p","r","e","s","s"," ","t","h","i",
    "s"," ","i","n"," ","a"," ","m","o","r","e"," ","c","o","n","s","t","r","u","c","t","i","v",
    "e"," ","w","a","y",".">>

\* TxtClarify: 'Could you help me understand this better?'
TxtClarify ==
  <<"C","o","u","l","d"," ","y","o","u"," ","h","e","l","p"," ","m","e"," ","u","n","d","e","r",
    "s","t","a","n","d"," ","t","h","i","s"," ","b","e","t","t","e","r","?">>

\* TxtHello: 'Hello there'
TxtHello ==
  <<"H","e","l","l","o"," ","t","h","e","r","e">>

\* CandPolite: 'I see this differently.'
CandPolite ==
  <<"I"," ","s","e","e"," ","t","h","i","s"," ","d","i","f","f","e","r","e","n","t","l","y",".">>

\* CandRefusal: 'Sorry, I cannot help with that'
CandRefusal ==
  <<"S","o","r","r","y",","," ","I"," ","c","a","n","n","o","t"," ","h","e","l","p"," ","w","i",
    "t","h"," ","t","h","a","t">>

\* CandQuoted: '"Rephrased: Hello there"'
CandQuoted ==
  <<"\"","R","e","p","h","r","a","s","e","d",":"," ","H","e","l","l","o"," ","t","h","e","r",
    "e","\"">>

\* CandShort: 'Hmm'
CandShort ==
  <<"H","m","m">>

\* CandEmpty: ''
CandEmpty ==
  <<>>

\* CandShout: 'YOU ARE SO STUPID'
CandShout ==
  <<"Y","O","U"," ","A","R","E"," ","S","O"," ","S","T","U","P","I","D">>

\* CandTwoPrefixes: 'Rephrased: Polite: Hello there'
CandTwoPrefixes ==
  <<"R","e","p","h","r","a","s","e","d",":"," ","P","o","l","i","t","e",":"," ","H","e","l","l",
    "o"," ","t","h","e","r","e">>

(***************************************************************************)
(* chat_moderation/main.py: text cleaning, validation, fallback message    *)
(***************************************************************************)

\* one turn of the prefix loop: strip the prefix when the text starts with it
strip_prefix(cleaned, prefix) ==
  IF startswith(lower(cleaned), lower(prefix))
    THEN strip(drop(cleaned, Len(prefix)))
    ELSE cleaned

\* the loop `for prefix in prefixes_to_remove` from the k-th prefix on
RECURSIVE strip_prefixes(_, _)
strip_prefixes(cleaned, k) ==
  IF k > Len(prefixes_to_remove)
    THEN cleaned
    ELSE strip_prefixes(strip_prefix(cleaned, prefixes_to_remove[k]), k + 1)

\* `Remove surrounding quotes`
strip_quotes(cleaned) ==
  IF \/ startswith(cleaned, <<"\"">>) /\ endswith(cleaned, <<"\"">>)
     \/ startswith(cleaned, <<"'">>) /\ endswith(cleaned, <<"'">>)
    THEN strip(SubSeq(cleaned, 2, Len(cleaned) - 1))
    ELSE cleaned

clean_rephrased_text(text) == strip_quotes(strip_prefixes(strip(text), 1))

MinRephrasedLen == 5

\* the comparison with the original without `.lower()`
is_valid_rephrasing_exact(original, rephrased) ==
  /\ ~(Len(rephrased) < MinRephrasedLen)
  /\ ~any_in(refusal_patterns, lower(rephrased))
  /\ ~(strip(original) = strip(rephrased))

is_valid_rephrasing(original, rephrased) ==
  /\ ~(Len(rephrased) < MinRephrasedLen)
  /\ ~any_in(refusal_patterns, lower(rephrased))
  /\ ~(lower(strip(original)) = lower(strip(rephrased)))

create_generic_polite_message(original_text) ==
  LET text_lower == lower(original_text)
  IN  IF any_in(insult_words, text_lower) THEN MsgDisagree
      ELSE IF any_in(hate_words, text_lower) THEN MsgFeelings
      ELSE IF any_in(silence_words, text_lower) THEN MsgConversation
      ELSE IF any_in(ugly_words, text_lower) THEN MsgHelpful
      ELSE IF any_in(loser_words, text_lower) THEN MsgValue
      ELSE MsgGeneric

(***************************************************************************)
(* api/index.py and api/moderate.py: the same three helpers, written with  *)
(* regular expressions, and the keyword scorer of api/moderate.py          *)
(***************************************************************************)

QuoteChars == {"\"", "'"}

SeparatorChars == {":", ";", "-", "EMDASH"}

\* re.sub(r'^["\']|["\']$', '', text): one leading and one trailing quote
\* character are removed, each on its own
sub_quotes(text) ==
  LET t1 == IF text # <<>> /\ Head(text) \in QuoteChars THEN Tail(text) ELSE text
  IN  IF t1 # <<>> /\ t1[Len(t1)] \in QuoteChars
        THEN SubSeq(t1, 1, Len(t1) - 1)
        ELSE t1

\* re.sub(r'^\*\*|!\*\*$', '', text)
sub_emphasis(text) ==
  LET t1 == IF startswith(text, <<"*", "*">>) THEN drop(text, 2) ELSE text
  IN  IF endswith(t1, <<"!", "*", "*">>)
        THEN SubSeq(t1, 1, Len(t1) - 3)
        ELSE t1

\* re.sub(r'^[:;\-—]\s*', '', text)
sub_separator(text) ==
  IF text # <<>> /\ Head(text) \in SeparatorChars THEN lstrip(Tail(text)) ELSE text

api_strip_prefix(text, prefix) ==
  IF startswith(lower(text), lower(prefix))
    THEN sub_separator(strip(drop(text, Len(prefix))))
    ELSE text

RECURSIVE api_strip_prefixes(_, _)
api_strip_prefixes(text, k) ==
  IF k > Len(api_prefixes_to_remove)
    THEN text
    ELSE api_strip_prefixes(api_strip_prefix(text, api_prefixes_to_remove[k]), k + 1)

api_clean_rephrased_text(text) ==
  strip(sub_quotes(api_strip_prefixes(sub_emphasis(sub_quotes(strip(text))), 1)))

ApiMinRephrasedLen == 3

api_is_valid_rephrasing(original, rephrased) ==
  /\ ~(rephrased = <<>> \/ Len(rephrased) < ApiMinRephrasedLen)
  /\ ~any_in(api_refusal_patterns, lower(rephrased))
  /\ ~(lower(rephrased) = lower(original))

api_create_generic_polite_message(original_text) ==
  LET text_lower == lower(original_text)
  IN  IF any_in(api_insult_words, text_lower) THEN ApiMsgApproach
      ELSE IF any_in(api_hate_words, text_lower) THEN ApiMsgComfortable
      ELSE IF any_in(api_silence_words, text_lower) THEN ApiMsgPause
      ELSE IF any_in(api_disagree_words, text_lower) THEN ApiMsgPerspective
      ELSE IF any_in(api_ugly_words, text_lower) THEN ApiMsgStandards
      ELSE IF contains(original_text, <<"?">>) THEN ApiMsgClarify
      ELSE ApiMsgGeneric

\* sum(1 for word in toxic_keywords if word in text_lower): one per list
\* entry, so a keyword the list repeats counts twice
toxic_count(text) ==
  Cardinality({k \in 1..Len(toxic_keywords) : contains(lower(text), toxic_keywords[k])})

\* scores in units of 10^-7
simple_toxicity_detection(text) ==
  LET n == toxic_count(text)
  IN  IF n = 0 THEN 0
      ELSE IF n = 1 THEN 4000000
      ELSE IF n = 2 THEN 6000000
      ELSE IF n = 3 THEN 7000000
      ELSE IF 9000000 < 6000000 + n * 1000000 THEN 9000000 ELSE 6000000 + n * 1000000

(***************************************************************************)
(* External services.  An invocation of the remote (Groq) or local (T5)    *)
(* rewrite service ends in one of three ways: it raises (network error,    *)
(* timeout, backend exception), it answers without usable content          *)
(* (content None, no choices, no generated_text), or it answers with text. *)
(* The scorer raises, answers without a "toxicity" entry, or answers       *)
(* with a score.                                                           *)
(***************************************************************************)

Raises == [kind |-> "raise", raw |-> <<>>]

NoContent == [kind |-> "none", raw |-> <<>>]

Answers(raw) == [kind |-> "text", raw |-> raw]

ScorerRaises == [kind |-> "raise", v |-> 0]

ScorerNoToxicity == [kind |-> "missing", v |-> 0]

ScorerAnswers(v) == [kind |-> "value", v |-> v]

\* the scorer has not been called yet
NotScored == [kind |-> "pending", v |-> 0]

\* Optional[str]
None == [some |-> FALSE, val |-> <<>>]

Some(s) == [some |-> TRUE, val |-> s]

TOXICITY_THRESHOLD == 5000000

ApiThreshold == 5000000

\* round(score, 3), in thousandths, of a score in units of 10^-7 (ties to even)
round3(score) ==
  LET q == score \div 10000
      r == score % 10000
  IN  IF r < 5000 THEN q
      ELSE IF r > 5000 THEN q + 1
      ELSE IF q % 2 = 0 THEN q ELSE q + 1

\* float(toxicity_scores.get("toxicity", 0.0)) of a scorer answer
toxicity_of(scores) == IF scores.kind = "value" THEN scores.v ELSE 0

(***************************************************************************)
(* chat_moderation/main.py: the rewrite chain                              *)
(***************************************************************************)

\* rephrase_with_groq, given how the service call ends (the call is made
\* only when groq_client is set)
rephrase_with_groq(t, configured, outcome) ==
  IF ~configured THEN None
  ELSE IF outcome.kind # "text" THEN None
  ELSE LET cleaned == clean_rephrased_text(outcome.raw)
       IN  IF is_valid_rephrasing(t, cleaned) THEN Some(cleaned) ELSE None

\* local_paraphrase returning its cleaned output without validating it
local_paraphrase_unchecked(t, outcome) ==
  IF outcome.kind # "text" THEN create_generic_polite_message(t)
  ELSE clean_rephrased_text(outcome.raw)

\* local_paraphrase, given how the pipeline call ends
local_paraphrase(t, outcome) ==
  IF outcome.kind # "text" THEN create_generic_polite_message(t)
  ELSE LET cleaned == clean_rephrased_text(outcome.raw)
       IN  IF is_valid_rephrasing(t, cleaned)
             THEN cleaned
             ELSE create_generic_polite_message(t)

\* rephrase_logic
rephrase_logic(t, configured, remote, local) ==
  LET groq_result == rephrase_with_groq(t, configured, remote)
  IN  IF configured /\ groq_result.some
        THEN groq_result.val
        ELSE local_paraphrase(t, local)

(***************************************************************************)
(* api/index.py: the rewrite chain                                         *)
(***************************************************************************)

api_rephrase_with_groq(t, configured, outcome) ==
  IF ~configured THEN None
  ELSE IF outcome.kind # "text" THEN None
  ELSE LET rephrased == api_clean_rephrased_text(outcome.raw)
       IN  IF api_is_valid_rephrasing(t, rephrased) THEN Some(rephrased) ELSE None

api_local_paraphrase(t, outcome) ==
  IF outcome.kind # "text" THEN api_create_generic_polite_message(t)
  ELSE LET rephrased == api_clean_rephrased_text(outcome.raw)
       IN  IF api_is_valid_rephrasing(t, rephrased)
             THEN rephrased
             ELSE api_create_generic_polite_message(t)

\* `if result:` is the truth value of an Optional[str]
truthy(opt) == opt.some /\ opt.val # <<>>

api_rephrase_logic(t, configured, remote, local) ==
  LET result == api_rephrase_with_groq(t, configured, remote)
  IN  IF truthy(result) THEN result.val ELSE api_local_paraphrase(t, local)

(***************************************************************************)
(* api/moderate.py: rephrase_with_groq is a stub that returns None         *)
(***************************************************************************)

minimal_rephrase_with_groq(t) == None

minimal_rephrase(t) ==
  LET rephrased_text == minimal_rephrase_with_groq(t)
  IN  IF ~truthy(rephrased_text)
        THEN api_create_generic_polite_message(t)
        ELSE rephrased_text.val

(***************************************************************************)
(* The responses the entry points build                                    *)
(***************************************************************************)

\* a strict comparison in place of `<=`
within_threshold_strict(score, threshold) == score < threshold

\* `if toxicity_score <= TOXICITY_THRESHOLD`, `if toxicity <= 0.5`
within_threshold(score, threshold) == score <= threshold

\* the threshold test made on the rounded score
http_response_rounded(t, score, threshold, rephrased_text) ==
  IF within_threshold(round3(score) * 10000, threshold)
    THEN [allowed |-> TRUE, score |-> round3(score), text |-> t]
    ELSE [allowed |-> FALSE, score |-> round3(score), original |-> t,
          rephrased |-> rephrased_text]

\* POST /moderate (all three files)
http_response(t, score, threshold, rephrased_text) ==
  IF within_threshold(score, threshold)
    THEN [allowed |-> TRUE, score |-> round3(score), text |-> t]
    ELSE [allowed |-> FALSE, score |-> round3(score), original |-> t,
          rephrased |-> rephrased_text]

Anonymous == <<"A","n","o","n","y","m","o","u","s">>

\* message_data.get("username", "Anonymous")
username_of(md) ==
  IF md.username.some THEN md.username.val ELSE Anonymous

\* /ws: the response dict of websocket_chat_endpoint (timestamp left out)
chat_response(md, score, rephrased_text) ==
  IF within_threshold(score, TOXICITY_THRESHOLD)
    THEN [username |-> username_of(md), original_text |-> md.text,
          toxicity |-> round3(score), allowed |-> TRUE,
          display_text |-> md.text]
    ELSE [username |-> username_of(md), original_text |-> md.text,
          toxicity |-> round3(score), allowed |-> FALSE,
          display_text |-> rephrased_text, original_displayed |-> FALSE]

\* /ws/moderator: moderated = toxicity_score >= TOXICITY_THRESHOLD
is_moderated(score) == score >= TOXICITY_THRESHOLD

moderator_response(md, score, rephrased_text) ==
  [original |-> md.text,
   final |-> IF is_moderated(score) THEN rephrased_text ELSE md.text,
   toxicity |-> round3(score),
   moderated |-> is_moderated(score)]

(***************************************************************************)
(* State                                                                   *)
(***************************************************************************)

VARIABLES
  \* one request through one entry point (the pipeline specification)
  entry,            \* which handler serves the request
  groq_configured,  \* groq_client is not None
  message_data,     \* the inbound request / parsed stream message
  ppc,              \* where the handler is: an await it is suspended at, or its end
  text,             \* the handler's local `text`
  toxicity_scores,  \* what the scorer answered
  toxicity_score,   \* the handler's local `toxicity_score` / `toxicity`
  calls,            \* the rewrite-service calls that have ended, in order, each with how it ended
  response,         \* the dict returned (HTTP) or handed to broadcast (streams)
  \* the two ConnectionManagers and the stream handlers (the hub specification)
  active_connections, \* manager -> its list self.active_connections
  hpc,              \* websocket -> where its handler is
  endpoint,         \* websocket -> the endpoint ("chat", "moderator") serving it
  open,             \* websocket -> the transport can still carry messages
  inbox,            \* websocket -> the deliveries its client received, in order
  message,          \* handler -> `message` of its running broadcast
  iter,             \* handler -> items the list iterator of its broadcast has consumed
  current,          \* handler -> `connection` of the send_text it is suspended at
  disconnected,     \* handler -> `disconnected` of its running broadcast
  sweep,            \* handler -> history of its latest broadcast
  disconnect_calls, \* websocket -> times disconnect was invoked for it
  raised,           \* a registry operation raised
  inbound,          \* inbound stream messages so far
  responded,        \* endpoint -> inbound messages it built a payload for
  broadcasts        \* manager -> broadcast calls made on it

pipeVars ==
  <<entry, groq_configured, message_data, ppc, text, toxicity_scores,
    toxicity_score, calls, response>>

hubVars ==
  <<active_connections, hpc, endpoint, open, inbox, message, iter, current,
    disconnected, sweep, disconnect_calls, raised, inbound, responded, broadcasts>>

vars == <<pipeVars, hubVars>>

(***************************************************************************)
(* Inputs of the pipeline specification                                    *)
(***************************************************************************)

Entries == {"main_http", "main_chat", "main_moderator", "index_http", "minimal_http"}

StreamEntries == {"main_chat", "main_moderator"}

Texts == {TxtStupid, TxtExplain, TxtHate, TxtGeneric, TxtClarify, TxtHello}

Bob == <<"b","o","b">>

\* what a service may answer for text t: the sample outputs, and t itself
Candidates(t) == {CandPolite, CandRefusal, CandQuoted, CandShort, CandEmpty,
                  CandShout, CandTwoPrefixes, t}

ServiceOutcomes(t) == {Raises, NoContent} \cup {Answers(c) : c \in Candidates(t)}

\* 0.0, just below 0.5, 0.5, 0.5000001, 0.5004, 1.0
ScoreValues == {0, 4996000, 5000000, 5000001, 5004000, 10000000}

ScorerOutcomes == {ScorerRaises, ScorerNoToxicity} \cup {ScorerAnswers(v) : v \in ScoreValues}

NoResponse == [none |-> TRUE]

Requests(e) ==
  IF e = "main_chat"
    THEN [malformed : BOOLEAN, text : Texts, username : {None, Some(Bob)}]
  ELSE IF e = "main_moderator"
    THEN [malformed : BOOLEAN, text : Texts, username : {None}]
  ELSE [malformed : {FALSE}, text : Texts, username : {None}]

PipeInit ==
  /\ entry \in Entries
  /\ groq_configured \in (IF entry = "minimal_http" THEN {FALSE} ELSE BOOLEAN)
  /\ message_data \in Requests(entry)
  /\ ppc = "received"
  /\ text = <<>>
  /\ toxicity_scores = NotScored
  /\ toxicity_score = 0
  /\ calls = <<>>
  /\ response = NoResponse

(***************************************************************************)
(* The handlers, one action per stretch between two awaits                 *)
(***************************************************************************)

\* the dict the entry point builds from its locals
build_response(e, md, t, score, rephrased_text) ==
  IF e = "main_http" THEN http_response(t, score, TOXICITY_THRESHOLD, rephrased_text)
  ELSE IF e = "main_chat" THEN chat_response(md, score, rephrased_text)
  ELSE IF e = "main_moderator" THEN moderator_response(md, score, rephrased_text)
  ELSE http_response(t, score, ApiThreshold, rephrased_text)

\* the branch that needs no rewrite
passes(e, score) ==
  IF e = "main_moderator" THEN ~is_moderated(score)
  ELSE IF e \in {"main_http", "main_chat"}
    THEN within_threshold(score, TOXICITY_THRESHOLD)
  ELSE within_threshold(score, ApiThreshold)

\* the HTTP handlers without `.strip()`
ReceiveUntrimmed ==
  /\ ppc = "received"
  /\ entry # "minimal_http"
  /\ IF message_data.malformed
       THEN /\ ppc' = "failed"
            /\ UNCHANGED <<text, calls>>
       ELSE /\ text' = message_data.text
            /\ ppc' = "scoring"
            /\ UNCHANGED calls
  /\ UNCHANGED <<entry, groq_configured, message_data, toxicity_scores,
                 toxicity_score, response>>
  /\ UNCHANGED hubVars

\* main.py 358-361, 399-407, 451-458; index.py 201-202: up to the scorer call
Receive ==
  /\ ppc = "received"
  /\ entry # "minimal_http"
  /\ IF message_data.malformed
       THEN \* json.loads raises: the handler ends with the exception
            /\ ppc' = "failed"
            /\ UNCHANGED <<text, calls>>
       ELSE /\ text' = IF entry \in StreamEntries
                         THEN message_data.text
                         ELSE strip(message_data.text)
            /\ ppc' = "scoring"
            /\ UNCHANGED calls
  /\ UNCHANGED <<entry, groq_configured, message_data, toxicity_scores,
                 toxicity_score, response>>
  /\ UNCHANGED hubVars

\* the scorer call ends; the threshold decision; the start of rephrase_logic
Scored(scores) ==
  /\ ppc = "scoring"
  /\ toxicity_scores' = scores
  /\ IF scores.kind = "raise"
       THEN \* the exception leaves the handler: HTTP 500, or the end of the stream
            /\ ppc' = "failed"
            /\ UNCHANGED <<toxicity_score, calls, response>>
       ELSE LET score == toxicity_of(scores)
            IN  /\ toxicity_score' = score
                /\ IF passes(entry, score)
                     THEN /\ response' = build_response(entry, message_data, text, score, <<>>)
                          /\ ppc' = "responded"
                     ELSE /\ UNCHANGED response
                          /\ ppc' = IF groq_configured THEN "remote" ELSE "local"
                /\ UNCHANGED calls
  /\ UNCHANGED <<entry, groq_configured, message_data, text>>
  /\ UNCHANGED hubVars

\* the remote stage with one retry after a call that gave no valid candidate
RemoteRetries(outcome) ==
  /\ ppc = "remote"
  /\ LET result == IF entry = "index_http"
                     THEN api_rephrase_with_groq(text, groq_configured, outcome)
                     ELSE rephrase_with_groq(text, groq_configured, outcome)
         accepted == IF entry = "index_http" THEN truthy(result) ELSE result.some
     IN  IF accepted
           THEN /\ response' = build_response(entry, message_data, text,
                                              toxicity_score, result.val)
                /\ ppc' = "responded"
           ELSE /\ ppc' = IF calls = <<>> THEN "remote" ELSE "local"
                /\ UNCHANGED response
  /\ calls' = Append(calls, [service |-> "remote", outcome |-> outcome])
  /\ UNCHANGED <<entry, groq_configured, message_data, text, toxicity_scores,
                 toxicity_score>>
  /\ UNCHANGED hubVars

\* the remote call without the try/except of rephrase_with_groq: an exception
\* leaves the handler
RemotePropagates(outcome) ==
  /\ ppc = "remote"
  /\ LET result == IF entry = "index_http"
                     THEN api_rephrase_with_groq(text, groq_configured, outcome)
                     ELSE rephrase_with_groq(text, groq_configured, outcome)
         accepted == IF entry = "index_http" THEN truthy(result) ELSE result.some
     IN  IF outcome.kind = "raise"
           THEN /\ ppc' = "failed"
                /\ UNCHANGED response
           ELSE IF accepted
             THEN /\ response' = build_response(entry, message_data, text,
                                                toxicity_score, result.val)
                  /\ ppc' = "responded"
             ELSE /\ ppc' = "local"
                  /\ UNCHANGED response
  /\ calls' = Append(calls, [service |-> "remote", outcome |-> outcome])
  /\ UNCHANGED <<entry, groq_configured, message_data, text, toxicity_scores,
                 toxicity_score>>
  /\ UNCHANGED hubVars

\* the remote call ends: main.py 334-336, index.py 191-193
Remote(outcome) ==
  /\ ppc = "remote"
  /\ LET result == IF entry = "index_http"
                     THEN api_rephrase_with_groq(text, groq_configured, outcome)
                     ELSE rephrase_with_groq(text, groq_configured, outcome)
         accepted == IF entry = "index_http" THEN truthy(result) ELSE result.some
     IN  IF accepted
           THEN /\ response' = build_response(entry, message_data, text,
                                              toxicity_score, result.val)
                /\ ppc' = "responded"
           ELSE /\ ppc' = "local"
                /\ UNCHANGED response
  /\ calls' = Append(calls, [service |-> "remote", outcome |-> outcome])
  /\ UNCHANGED <<entry, groq_configured, message_data, text, toxicity_scores,
                 toxicity_score>>
  /\ UNCHANGED hubVars

\* the local call ends: main.py 339-340, index.py 196-197
Local(outcome) ==
  /\ ppc = "local"
  /\ LET local_result == IF entry = "index_http"
                           THEN api_local_paraphrase(text, outcome)
                           ELSE local_paraphrase(text, outcome)
     IN  response' = build_response(entry, message_data, text, toxicity_score,
                                    local_result)
  /\ ppc' = "responded"
  /\ calls' = Append(calls, [service |-> "local", outcome |-> outcome])
  /\ UNCHANGED <<entry, groq_configured, message_data, text, toxicity_scores,
                 toxicity_score>>
  /\ UNCHANGED hubVars

\* api/moderate.py moderate: no await suspends it, the handler is one step
MinimalModerate ==
  /\ ppc = "received"
  /\ entry = "minimal_http"
  /\ LET t == strip(message_data.text)
         toxicity == simple_toxicity_detection(t)
     IN  /\ text' = t
         /\ toxicity_scores' = ScorerAnswers(toxicity)
         /\ toxicity_score' = toxicity
         /\ response' = build_response(entry, message_data, t, toxicity,
                                       minimal_rephrase(t))
  /\ ppc' = "responded"
  /\ UNCHANGED <<entry, groq_configured, message_data, calls>>
  /\ UNCHANGED hubVars

(***************************************************************************)
(* chat_moderation/main.py: ConnectionManager                              *)
(***************************************************************************)

NumSockets == 2

MaxMessages == 2

WebSockets == 1..NumSockets

\* chat_manager and moderator_manager, named by the endpoint they serve
Managers == {"chat", "moderator"}

\* `x in lst`
in_list(lst, x) == \E i \in 1..Len(lst) : lst[i] = x

\* lst.remove(x): removes the first x; ValueError when there is none
list_remove(lst, x) ==
  IF in_list(lst, x)
    THEN LET i == CHOOSE k \in 1..Len(lst) :
                    lst[k] = x /\ \A j \in 1..(k - 1) : lst[j] # x
         IN  [list |-> SubSeq(lst, 1, i - 1) \o SubSeq(lst, i + 1, Len(lst)),
              raised |-> FALSE]
    ELSE [list |-> lst, raised |-> TRUE]

\* ConnectionManager.connect, after accept(): append
connect(lst, websocket) == Append(lst, websocket)

\* disconnect without the membership test
disconnect_unguarded(lst, websocket) == list_remove(lst, websocket)

\* ConnectionManager.disconnect
disconnect(lst, websocket) ==
  IF in_list(lst, websocket)
    THEN list_remove(lst, websocket)
    ELSE [list |-> lst, raised |-> FALSE]

\* a broadcast that forgets to prune
disconnect_none(lst, conns) == [list |-> lst, raised |-> FALSE]

\* `for conn in disconnected: self.disconnect(conn)`
RECURSIVE disconnect_each(_, _)
disconnect_each(lst, conns) ==
  IF conns = <<>>
    THEN [list |-> lst, raised |-> FALSE]
    ELSE LET first == disconnect(lst, Head(conns))
         IN  IF first.raised
               THEN first
               ELSE disconnect_each(first.list, Tail(conns))

\* how often x occurs in a sequence
occurrences(seq, x) == Cardinality({i \in 1..Len(seq) : seq[i] = x})

(***************************************************************************)
(* Inputs of the hub specification                                         *)
(***************************************************************************)

\* which endpoint each client connects to: /ws or /ws/moderator
EndpointChoices == [WebSockets -> Managers]

HubTexts == {TxtStupid}

HubRequests == [malformed : BOOLEAN, text : HubTexts, username : {None}]

HubScorerOutcomes == {ScorerRaises, ScorerAnswers(10000000)}

HubRemoteOutcomes == {Raises}

HubLocalOutcomes == {Raises}

\* history of a handler's latest broadcast: the list when it began, the
\* connections it has called send_text on, those whose send_text returned, and
\* whether no other task has called connect or disconnect on its manager while
\* it ran
NoSweep == [members |-> <<>>, attempted |-> <<>>, delivered |-> <<>>, clean |-> TRUE]

\* no connection yet, both managers empty
HubStart ==
  /\ active_connections = [m \in Managers |-> <<>>]
  /\ hpc = [w \in WebSockets |-> "unborn"]
  /\ open = [w \in WebSockets |-> TRUE]
  /\ inbox = [w \in WebSockets |-> <<>>]
  /\ message = [w \in WebSockets |-> NoResponse]
  /\ iter = [w \in WebSockets |-> 0]
  /\ current = [w \in WebSockets |-> w]
  /\ disconnected = [w \in WebSockets |-> <<>>]
  /\ sweep = [w \in WebSockets |-> NoSweep]
  /\ disconnect_calls = [w \in WebSockets |-> 0]
  /\ raised = FALSE
  /\ inbound = 0
  /\ responded = [m \in Managers |-> 0]
  /\ broadcasts = [m \in Managers |-> 0]

\* the hub at rest, for the pipeline specification
HubIdle == HubStart /\ endpoint = [w \in WebSockets |-> "chat"]

\* the pipeline at rest, for the hub specification
PipeIdle ==
  /\ entry = "main_chat"
  /\ groq_configured = FALSE
  /\ message_data = [malformed |-> FALSE, text |-> <<>>, username |-> None]
  /\ ppc = "idle"
  /\ text = <<>>
  /\ toxicity_scores = NotScored
  /\ toxicity_score = 0
  /\ calls = <<>>
  /\ response = NoResponse

\* a connect or disconnect call on manager m by task w is concurrent with every
\* broadcast of m that another task is running
disturb(sw, m, w) ==
  [b \in WebSockets |->
     IF b # w /\ hpc[b] = "send" /\ endpoint[b] = m
       THEN [sw[b] EXCEPT !.clean = FALSE]
       ELSE sw[b]]

(***************************************************************************)
(* The stream handlers: websocket_chat_endpoint, websocket_moderator_      *)
(* endpoint.  One action per stretch between two awaits that touch the      *)
(* registry or the transport.                                              *)
(***************************************************************************)

\* main.py 394 / 446: `await manager.connect(websocket)`.  Clients are
\* interchangeable, so they connect in the order of their numbers.
Connect(w) ==
  /\ hpc[w] = "unborn"
  /\ open[w]
  /\ \A v \in WebSockets : v < w => hpc[v] # "unborn"
  /\ active_connections' =
       [active_connections EXCEPT ![endpoint[w]] = connect(@, w)]
  /\ hpc' = [hpc EXCEPT ![w] = "receive"]
  /\ sweep' = disturb(sweep, endpoint[w], w)
  /\ UNCHANGED <<endpoint, open, inbox, message, iter, current, disconnected,
                 disconnect_calls, raised, inbound, responded, broadcasts>>
  /\ UNCHANGED pipeVars

\* the client goes away
ClientClose(w) ==
  /\ hpc[w] \in {"receive", "send"}
  /\ open[w]
  /\ open' = [open EXCEPT ![w] = FALSE]
  /\ UNCHANGED <<active_connections, hpc, endpoint, inbox, message, iter, current,
                 disconnected, sweep, disconnect_calls, raised, inbound, responded,
                 broadcasts>>
  /\ UNCHANGED pipeVars

\* main.py 435-436 / 481-482: receive_text raises WebSocketDisconnect
ReceiveDisconnect(w) ==
  /\ hpc[w] = "receive"
  /\ ~open[w]
  /\ LET m == endpoint[w]
         r == disconnect(active_connections[m], w)
     IN  /\ active_connections' = [active_connections EXCEPT ![m] = r.list]
         /\ raised' = (raised \/ r.raised)
         /\ sweep' = disturb(sweep, m, w)
  /\ disconnect_calls' = [disconnect_calls EXCEPT ![w] = @ + 1]
  /\ hpc' = [hpc EXCEPT ![w] = "closed"]
  /\ UNCHANGED <<endpoint, open, inbox, message, iter, current, disconnected,
                 inbound, responded, broadcasts>>
  /\ UNCHANGED pipeVars

\* the payload of the endpoint serving a connection
stream_response(m, md, score, rephrased_text) ==
  IF m = "chat"
    THEN chat_response(md, score, rephrased_text)
    ELSE moderator_response(md, score, rephrased_text)

\* every endpoint broadcasting on moderator_manager
manager_of_moderator(m) == "moderator"

\* the manager an endpoint broadcasts on: main.py 433 / 479
manager_of(m) == m

\* the rest of broadcast from the for statement's next step on, for handler w
\* broadcasting msg on manager m, whose list iterator has consumed i items and
\* whose `disconnected` is failed: the next send_text, or the clean-up loop
\* and the return to receive_text
Advance(w, m, msg, i, failed, sw) ==
  LET lst == active_connections[m]
  IN  IF i < Len(lst)
        THEN /\ iter' = [iter EXCEPT ![w] = i + 1]
             /\ current' = [current EXCEPT ![w] = lst[i + 1]]
             /\ disconnected' = [disconnected EXCEPT ![w] = failed]
             /\ message' = [message EXCEPT ![w] = msg]
             /\ hpc' = [hpc EXCEPT ![w] = "send"]
             /\ sweep' = [sw EXCEPT ![w].attempted = Append(@, lst[i + 1])]
             /\ UNCHANGED <<active_connections, disconnect_calls, raised>>
        ELSE LET r == disconnect_each(lst, failed)
             IN  /\ active_connections' = [active_connections EXCEPT ![m] = r.list]
                 /\ raised' = (raised \/ r.raised)
                 /\ disconnect_calls' =
                      [c \in WebSockets |-> disconnect_calls[c] + occurrences(failed, c)]
                 /\ sweep' = IF failed = <<>> THEN sw ELSE disturb(sw, m, w)
                 /\ hpc' = [hpc EXCEPT ![w] = "receive"]
                 /\ disconnected' = [disconnected EXCEPT ![w] = <<>>]
                 /\ iter' = [iter EXCEPT ![w] = 0]
                 /\ current' = [current EXCEPT ![w] = w]
                 /\ message' = [message EXCEPT ![w] = NoResponse]

\* main.py 399-433 / 451-479: one inbound message, up to the first send_text of
\* the broadcast (or to the end of the handler when something raises)
HandleMessage(w, md, scores, remote, local) ==
  /\ hpc[w] = "receive"
  /\ open[w]
  /\ inbound < MaxMessages
  /\ inbound' = inbound + 1
  /\ IF md.malformed \/ scores.kind = "raise"
       THEN \* json.loads or the scorer raised: not WebSocketDisconnect, so the
            \* handler ends without disconnect; the server closes the socket
            /\ hpc' = [hpc EXCEPT ![w] = "crashed"]
            /\ open' = [open EXCEPT ![w] = FALSE]
            /\ UNCHANGED <<active_connections, inbox, message, iter, current,
                           disconnected, sweep, disconnect_calls, raised,
                           responded, broadcasts>>
       ELSE LET e == endpoint[w]
                m == manager_of(e)
                score == toxicity_of(scores)
                payload == stream_response(e, md, score,
                             rephrase_logic(md.text, groq_configured, remote, local))
                started == [sweep EXCEPT ![w] =
                              [members |-> active_connections[m],
                               attempted |-> <<>>, delivered |-> <<>>,
                               clean |-> TRUE]]
            IN  /\ responded' = [responded EXCEPT ![e] = @ + 1]
                /\ broadcasts' = [broadcasts EXCEPT ![m] = @ + 1]
                /\ Advance(w, m, payload, 0, <<>>, started)
                /\ UNCHANGED <<open, inbox>>
  /\ UNCHANGED endpoint
  /\ UNCHANGED pipeVars

\* broadcast calling disconnect inside its except clause, during the loop
SendPrunes(w) ==
  /\ hpc[w] = "send"
  /\ LET c == current[w]
         m == manager_of(endpoint[w])
         r == IF open[c]
                THEN [list |-> active_connections[m], raised |-> FALSE]
                ELSE disconnect(active_connections[m], c)
         lst == r.list
         sw == IF open[c]
                 THEN [sweep EXCEPT ![w].delivered = Append(@, c)]
                 ELSE disturb(sweep, m, w)
     IN  /\ inbox' = IF open[c]
                       THEN [inbox EXCEPT ![c] = Append(@, message[w])]
                       ELSE inbox
         /\ active_connections' = [active_connections EXCEPT ![m] = lst]
         /\ raised' = (raised \/ r.raised)
         /\ disconnect_calls' = IF open[c] THEN disconnect_calls
                                ELSE [disconnect_calls EXCEPT ![c] = @ + 1]
         /\ IF iter[w] < Len(lst)
              THEN /\ iter' = [iter EXCEPT ![w] = @ + 1]
                   /\ current' = [current EXCEPT ![w] = lst[iter[w] + 1]]
                   /\ sweep' = [sw EXCEPT ![w].attempted = Append(@, lst[iter[w] + 1])]
                   /\ UNCHANGED <<hpc, message, disconnected>>
              ELSE /\ hpc' = [hpc EXCEPT ![w] = "receive"]
                   /\ iter' = [iter EXCEPT ![w] = 0]
                   /\ current' = [current EXCEPT ![w] = w]
                   /\ message' = [message EXCEPT ![w] = NoResponse]
                   /\ sweep' = sw
                   /\ UNCHANGED disconnected
  /\ UNCHANGED <<endpoint, open, inbound, responded, broadcasts>>
  /\ UNCHANGED pipeVars

\* broadcast without its try/except: a send_text that raises ends the handler
SendPropagates(w) ==
  /\ hpc[w] = "send"
  /\ LET c == current[w]
     IN  IF open[c]
           THEN /\ inbox' = [inbox EXCEPT ![c] = Append(@, message[w])]
                /\ Advance(w, manager_of(endpoint[w]), message[w], iter[w],
                           disconnected[w],
                           [sweep EXCEPT ![w].delivered = Append(@, c)])
                /\ UNCHANGED open
           ELSE /\ hpc' = [hpc EXCEPT ![w] = "crashed"]
                /\ open' = [open EXCEPT ![w] = FALSE]
                /\ iter' = [iter EXCEPT ![w] = 0]
                /\ UNCHANGED <<active_connections, inbox, message, current,
                               disconnected, sweep, disconnect_calls, raised>>
  /\ UNCHANGED <<endpoint, inbound, responded, broadcasts>>
  /\ UNCHANGED pipeVars

\* main.py 95-97: the send_text handler w is suspended at returns or raises, and
\* the broadcast runs on to its next send_text or to its end
SendReturns(w) ==
  /\ hpc[w] = "send"
  /\ LET c == current[w]
         failed == IF open[c] THEN disconnected[w] ELSE Append(disconnected[w], c)
     IN  /\ inbox' = IF open[c]
                       THEN [inbox EXCEPT ![c] = Append(@, message[w])]
                       ELSE inbox
         /\ Advance(w, manager_of(endpoint[w]), message[w], iter[w], failed,
                    IF open[c]
                      THEN [sweep EXCEPT ![w].delivered = Append(@, c)]
                      ELSE sweep)
  /\ UNCHANGED <<endpoint, open, inbound, responded, broadcasts>>
  /\ UNCHANGED pipeVars

HubNext ==
  \/ \E w \in WebSockets : Connect(w)
  \/ \E w \in WebSockets : ClientClose(w)
  \/ \E w \in WebSockets : ReceiveDisconnect(w)
  \/ \E w \in WebSockets, md \in HubRequests, scores \in HubScorerOutcomes,
        remote \in HubRemoteOutcomes, local \in HubLocalOutcomes :
        HandleMessage(w, md, scores, remote, local)
  \/ \E w \in WebSockets : SendReturns(w)

Init == HubStart /\ endpoint \in EndpointChoices /\ PipeIdle

Spec == Init /\ [][HubNext]_vars

PipeNext ==
  \/ Receive
  \/ \E scores \in ScorerOutcomes : Scored(scores)
  \/ \E outcome \in ServiceOutcomes(text) : Remote(outcome)
  \/ \E outcome \in ServiceOutcomes(text) : Local(outcome)
  \/ MinimalModerate

PipeStart == PipeInit /\ HubIdle

PipeSpec == PipeStart /\ [][PipeNext]_vars

(***************************************************************************)
(* Properties                                                              *)
(***************************************************************************)

\* the entry points of chat_moderation/main.py
MainEntries == {"main_http", "main_chat", "main_moderator"}

\* the handler answered through its rewrite branch
Rewritten ==
  /\ ppc = "responded"
  /\ IF entry = "main_chat" THEN ~response.allowed
     ELSE IF entry = "main_moderator" THEN response.moderated
     ELSE ~response.allowed

\* the text the rewrite chain returned, as the response carries it
RewriteResult ==
  IF entry = "main_chat" THEN response.display_text
  ELSE IF entry = "main_moderator" THEN response.final
  ELSE response.rephrased

\* C1: on the HTTP /moderate path of all three files and on the chat stream
\* path, a response built for scorer value s has allowed = TRUE exactly when
\* s <= 0.5 (5000000 units).
C1_AllowedIffWithinThreshold ==
  (/\ ppc = "responded"
   /\ entry \in {"main_http", "main_chat", "index_http", "minimal_http"}
   /\ toxicity_scores.kind = "value")
    => (response.allowed <=> toxicity_scores.v <= 5000000)

\* C1 witness: the chat stream allowed a message scored exactly 0.5
C1_Witness ==
  /\ ppc = "responded"
  /\ entry = "main_chat"
  /\ toxicity_scores = ScorerAnswers(5000000)
  /\ response.allowed

\* C2 as claimed: whatever the stages did, the rewrite chain of main.py returns
\* a non-empty text that passes is_valid_rephrasing against the input text.
C2_RewriteAlwaysValid ==
  (Rewritten /\ entry \in MainEntries)
    => /\ RewriteResult # <<>>
       /\ is_valid_rephrasing(text, RewriteResult)

\* C9 as claimed: when the scorer raises or answers without a toxicity value,
\* the request fails and no response is built.
C9_ScoringFailureNotMasked ==
  toxicity_scores.kind \in {"raise", "missing"}
    => (ppc = "failed" /\ response = NoResponse)

\* a call of a rewrite service that yielded no text
NoCandidate(call) == call.outcome.kind # "text"

\* C8: a failure of the remote or local rewrite call never ends the request:
\* a request fails only on a malformed message or a scorer exception; after a
\* failed remote call the local stage runs next; after a failed local call the
\* handler answers with the fallback message of the text.
C8_RewriteFailureAbsorbed ==
  /\ ppc = "failed" => (message_data.malformed \/ toxicity_scores.kind = "raise")
  /\ calls # <<>> => ppc \in {"local", "responded"}
  /\ \A i \in 1..Len(calls) :
       (calls[i].service = "remote" /\ NoCandidate(calls[i]))
         => IF i = Len(calls) THEN ppc = "local"
            ELSE calls[i + 1].service = "local"
  /\ \A i \in 1..Len(calls) :
       (calls[i].service = "local" /\ NoCandidate(calls[i]))
         => /\ i = Len(calls)
            /\ Rewritten
            /\ RewriteResult = (IF entry = "index_http"
                                  THEN api_create_generic_polite_message(text)
                                  ELSE create_generic_polite_message(text))

\* C8 witness: the remote call raised, then the local call raised, and the
\* moderation endpoint answered with the fallback message
C8_Witness ==
  /\ entry = "main_http"
  /\ calls = <<[service |-> "remote", outcome |-> Raises],
               [service |-> "local", outcome |-> Raises]>>
  /\ ppc = "responded"
  /\ response.rephrased = create_generic_polite_message(text)

\* the members of a list that also occur in another, in the list's order
members_in(lst, kept) ==
  LET Kept(c) == in_list(kept, c)
  IN  SelectSeq(lst, Kept)

\* handler w's broadcast returns to its receive loop in this step
BroadcastReturns(w) == hpc[w] = "send" /\ hpc'[w] = "receive"

\* a send_text that handler w awaited ends in this step
SendEnds(w) == hpc[w] = "send" /\ iter'[w] # iter[w]

\* C3: a broadcast during which no other task called connect or disconnect on
\* its manager has, when it returns, called send_text once on every connection
\* registered when it began, in order; the registry is then exactly the
\* connections whose send returned; each send that returns puts the message
\* once into its target's inbox and nothing else is delivered; a connection
\* that has left the registry receives nothing afterwards.
C3_CleanBroadcast ==
  [][
      /\ \A w \in WebSockets :
          (BroadcastReturns(w) /\ sweep'[w].clean)
            => /\ sweep'[w].attempted = sweep'[w].members
               /\ active_connections'[endpoint[w]] =
                    members_in(sweep'[w].members, sweep'[w].delivered)
               /\ \A c \in WebSockets : occurrences(sweep'[w].delivered, c) <= 1
      /\ \A w \in WebSockets :
          SendEnds(w)
            => IF sweep'[w].delivered # sweep[w].delivered
                 THEN /\ sweep'[w].delivered = Append(sweep[w].delivered, current[w])
                      /\ inbox' = [inbox EXCEPT ![current[w]] = Append(@, message[w])]
                 ELSE inbox' = inbox
      /\ (\A w \in WebSockets : ~SendEnds(w)) => inbox' = inbox
      /\ \A c \in WebSockets :
          (hpc[c] # "unborn" /\ ~in_list(active_connections[endpoint[c]], c))
            => inbox'[c] = inbox[c]
    ]_vars

\* C3 witness: connection 2 was pruned by a broadcast sweep (its own handler
\* has not called disconnect), and a later undisturbed broadcast of handler 1
\* delivered to connection 1 only
C3_Witness ==
  /\ hpc[2] = "receive"
  /\ disconnect_calls[2] = 1
  /\ endpoint[1] = endpoint[2]
  /\ active_connections[endpoint[1]] = <<1>>
  /\ hpc[1] = "receive"
  /\ sweep[1] = [members |-> <<1>>, attempted |-> <<1>>, delivered |-> <<1>>,
                 clean |-> TRUE]
  /\ Len(inbox[1]) = 2
  /\ inbox[2] = <<>>

\* C4: under every interleaving of the handlers, no connection is twice in a
\* manager's list, no registry operation has raised, and a connection for
\* which a disconnect call has completed is in no list.
C4_RegistryNeverCorrupted ==
  /\ ~raised
  /\ \A m \in Managers, c \in WebSockets : occurrences(active_connections[m], c) <= 1
  /\ \A c \in WebSockets :
       disconnect_calls[c] > 0 => \A m \in Managers : ~in_list(active_connections[m], c)

\* C4 witness: while handler w's broadcast was suspended at a send, the handler
\* of connection c called disconnect; the broadcast's clean-up loop called it
\* for c again, and nothing raised
C4_Witness ==
  \E c, w \in WebSockets :
    /\ c # w
    /\ disconnect_calls[c] = 2
    /\ hpc[c] = "closed"
    /\ hpc[w] = "receive"
    /\ ~sweep[w].clean
    /\ in_list(sweep[w].attempted, c)
    /\ ~raised
    /\ \A m \in Managers : ~in_list(active_connections[m], c)

\* C5 as claimed: when a broadcast returns, it has called send_text exactly
\* once on every connection that was registered when it began, whatever other
\* tasks did to the registry while it was suspended.
C5_SweepCoversStartMembership ==
  [][\A w \in WebSockets :
       BroadcastReturns(w)
         => \A c \in WebSockets :
              in_list(sweep'[w].members, c) => occurrences(sweep'[w].attempted, c) = 1
    ]_vars

\* C6 as claimed: when a connection's handler has ended, by a close or by an
\* error, disconnect has been invoked for the connection exactly once and the
\* connection is not in the registry.
C6_DisconnectExactlyOnce ==
  \A w \in WebSockets :
    hpc[w] \in {"closed", "crashed"}
      => /\ disconnect_calls[w] = 1
         /\ ~in_list(active_connections[endpoint[w]], w)

\* the send_text handler w awaited raises in this step
SendFails(w) == SendEnds(w) /\ ~open[current[w]]

ModeratorKeys == {"original", "final", "toxicity", "moderated"}

\* C10 as claimed: every inbound message that gets a payload, on either
\* stream, is broadcast to the moderator subscribers.
C10_ModeratorsSeeEveryMessage ==
  broadcasts["moderator"] = responded["chat"] + responded["moderator"]

\* C10 amended: each stream broadcasts on its own manager only: every payload
\* built on the moderator stream is one broadcast on moderator_manager, every
\* payload built on the chat stream is one broadcast on chat_manager, and a
\* client receives {original, final, toxicity, moderated} payloads exactly when
\* it is connected to the moderator stream.
C10_EachStreamItsOwnManager ==
  /\ \A m \in Managers : broadcasts[m] = responded[m]
  /\ \A c \in WebSockets : \A i \in 1..Len(inbox[c]) :
       (DOMAIN inbox[c][i] = ModeratorKeys) <=> (endpoint[c] = "moderator")

\* C10 witness: one message on each stream, each delivered to a client of its
\* own stream only
C10_Witness ==
  \E a, b \in WebSockets :
    /\ endpoint[a] = "chat"
    /\ endpoint[b] = "moderator"
    /\ responded = [m \in Managers |-> 1]
    /\ Len(inbox[a]) = 1
    /\ Len(inbox[b]) = 1
    /\ DOMAIN inbox[b][1] = ModeratorKeys
    /\ "display_text" \in DOMAIN inbox[a][1]

\* the POST /moderate handlers
HttpEntries == {"main_http", "index_http", "minimal_http"}

\* how the call of a rewrite service ended in this request (Raises when the
\* service was not called)
CallOutcome(service) ==
  IF \E i \in 1..Len(calls) : calls[i].service = service
    THEN calls[CHOOSE i \in 1..Len(calls) : calls[i].service = service].outcome
    ELSE Raises

\* what the rewrite chain of the entry point returns for text t, given how the
\* calls of this request ended
ChainResult(t) ==
  IF entry = "minimal_http" THEN minimal_rephrase(t)
  ELSE IF entry = "index_http"
    THEN api_rephrase_logic(t, groq_configured, CallOutcome("remote"),
                            CallOutcome("local"))
  ELSE rephrase_logic(t, groq_configured, CallOutcome("remote"),
                      CallOutcome("local"))

\* C11: the dict POST /moderate returns has the keys of its branch: allowed,
\* score, text (the trimmed input) when allowed; allowed, score, original (the
\* trimmed input), rephrased (the rewrite chain's result for the trimmed
\* input) when not allowed.
C11_ResultShape ==
  (ppc = "responded" /\ entry \in HttpEntries)
    => LET trimmed == strip(message_data.text)
       IN  IF response.allowed
             THEN /\ DOMAIN response = {"allowed", "score", "text"}
                  /\ response.text = trimmed
             ELSE /\ DOMAIN response = {"allowed", "score", "original", "rephrased"}
                  /\ response.original = trimmed
                  /\ response.rephrased = ChainResult(trimmed)

\* C11 witness: " I hate this " was scored above the threshold; the answer
\* carries the trimmed text as original and the local candidate as rephrased
C11_Witness ==
  /\ ppc = "responded"
  /\ entry = "main_http"
  /\ message_data.text = TxtHate
  /\ ~response.allowed
  /\ response.original = strip(TxtHate)
  /\ response.original # TxtHate
  /\ calls = <<[service |-> "local", outcome |-> Answers(CandPolite)]>>
  /\ response.rephrased = CandPolite

\* the handler of chat connection w takes an inbound message in this step and
\* starts its broadcast
ChatMessageHandled(w) ==
  endpoint[w] = "chat" /\ hpc[w] = "receive" /\ hpc'[w] = "send"

\* C12 as claimed: every chat-stream message the handler processes makes one
\* broadcast on chat_manager; its payload carries the username ("Anonymous"
\* when absent), the original text, the allowed flag and as display text the
\* original text when allowed and the rewrite chain's result otherwise; when
\* the broadcast returns, the payload has been sent to every connection that
\* was registered when it began, the sender included.
C12_ChatMessageReachesAll ==
  [][\A w \in WebSockets :
       /\ ChatMessageHandled(w)
            => /\ broadcasts'["chat"] = broadcasts["chat"] + 1
               /\ broadcasts'["moderator"] = broadcasts["moderator"]
               /\ message'[w].username = Anonymous
               /\ message'[w].original_text \in HubTexts
               /\ message'[w].display_text =
                    (IF message'[w].allowed
                       THEN message'[w].original_text
                       ELSE rephrase_logic(message'[w].original_text, groq_configured,
                                           Raises, Raises))
               /\ in_list(sweep'[w].members, w)
       /\ (endpoint[w] = "chat" /\ BroadcastReturns(w))
            => \A c \in WebSockets :
                 in_list(sweep'[w].members, c) => in_list(sweep'[w].attempted, c)
    ]_vars

\* C13: disconnect of a connection that is not in the list leaves the list as
\* it is and does not raise; after disconnect the connection is not in the
\* list; a second disconnect changes nothing more.  Stated of every list the
\* managers hold and every connection, and of the calls the handlers made.
C13_DisconnectIdempotent ==
  /\ \A m \in Managers, s \in WebSockets :
       LET lst == active_connections[m]
           once == disconnect(lst, s)
           twice == disconnect(once.list, s)
       IN  /\ ~once.raised
           /\ ~in_list(once.list, s)
           /\ twice = once
           /\ ~in_list(lst, s) => once.list = lst
  /\ \A s \in WebSockets :
       disconnect_calls[s] >= 2 => (~raised /\ ~in_list(active_connections[endpoint[s]], s))

\* C13 witness: disconnect has been called twice for connection 1 (by the
\* clean-up loop of connection 2's broadcast and by its own handler); the list
\* still holds connection 2
C13_Witness ==
  /\ disconnect_calls[1] = 2
  /\ endpoint[1] = endpoint[2]
  /\ active_connections[endpoint[1]] = <<2>>
  /\ disconnect(active_connections[endpoint[1]], 1) =
       [list |-> <<2>>, raised |-> FALSE]
  /\ ~raised

\* the request was answered with the fallback message: the local call yielded
\* no text, or the entry point has no rewrite service
FallbackReturned ==
  /\ Rewritten
  /\ \/ entry = "minimal_http"
     \/ /\ calls # <<>>
        /\ calls[Len(calls)].service = "local"
        /\ NoCandidate(calls[Len(calls)])

\* C14 as claimed: the fallback message is never empty; for "You are so
\* stupid" it is the message of the insult category; for "Can you explain?",
\* which matches no keyword category and contains '?', it is the
\* clarification request and not the generic message.
C14_FallbackSelection ==
  FallbackReturned
    => /\ RewriteResult # <<>>
       /\ strip(text) = TxtStupid
            => RewriteResult = (IF entry \in MainEntries THEN MsgDisagree
                                ELSE ApiMsgApproach)
       /\ strip(text) = TxtExplain
            => (RewriteResult = ApiMsgClarify /\ RewriteResult # MsgGeneric)

\* C15 as claimed: when a service answers '"Rephrased: Hello there"' and the
\* candidate is accepted, the text returned is "Hello there", without the
\* quotes and without the prefix.
C15_QuotedPrefixNormalized ==
  (/\ Rewritten
   /\ entry \in MainEntries \cup {"index_http"}
   /\ calls # <<>>
   /\ calls[Len(calls)].outcome = Answers(CandQuoted)
   /\ strip(text) # TxtHello)
    => RewriteResult = TxtHello

\* the validator of the entry point's file
Validated(t, candidate) ==
  IF entry \in MainEntries THEN is_valid_rephrasing(t, candidate)
  ELSE api_is_valid_rephrasing(t, candidate)

\* the normalizer of the entry point's file
Normalized(raw) ==
  IF entry \in MainEntries THEN clean_rephrased_text(raw)
  ELSE api_clean_rephrased_text(raw)

\* C16: the validator rejects the text itself and every candidate that equals
\* it up to letter case; a remote answer that equals the text up to case is
\* not accepted, the chain goes on to the local stage.
C16_IdentityRejected ==
  /\ text # <<>> => ~Validated(text, text)
  /\ \A c \in Candidates(text) :
       (c # <<>> /\ lower(c) = lower(text)) => ~Validated(text, c)
  /\ \A i \in 1..Len(calls) :
       (/\ calls[i].service = "remote"
        /\ calls[i].outcome.kind = "text"
        /\ lower(Normalized(calls[i].outcome.raw)) = lower(text))
         => IF i = Len(calls) THEN ppc = "local"
            ELSE calls[i + 1].service = "local"

\* C16 witness: the remote service answered "YOU ARE SO STUPID" for "You are
\* so stupid"; the candidate was rejected and the local stage is next
C16_Witness ==
  /\ entry = "main_chat"
  /\ text = TxtStupid
  /\ calls = <<[service |-> "remote", outcome |-> Answers(CandShout)]>>
  /\ ppc = "local"

\* the calls of one service in this request
CallsOf(service) == {i \in 1..Len(calls) : calls[i].service = service}

\* the stages run in order and at most once each: at most one remote call,
\* made only with a configured client and before any local call; at most one
\* local call, made only when no remote call gave a valid candidate
StagesInOrder ==
  /\ Cardinality(CallsOf("remote")) <= 1
  /\ Cardinality(CallsOf("local")) <= 1
  /\ CallsOf("remote") # {} => (groq_configured /\ calls[1].service = "remote")
  /\ (CallsOf("local") # {} /\ CallsOf("remote") # {})
       => ~(/\ calls[1].outcome.kind = "text"
            /\ Validated(text, Normalized(calls[1].outcome.raw)))
  /\ (groq_configured /\ Rewritten /\ entry # "minimal_http")
       => CallsOf("remote") # {}

\* C17 as claimed: the stages run in order and at most once each, and whenever
\* a text is rewritten without a configured remote service the local service
\* is invoked.
C17_LocalAlwaysInvoked ==
  /\ StagesInOrder
  /\ (Rewritten /\ ~groq_configured) => CallsOf("local") # {}

\* C17 amended: the stages run in order and at most once each; in main.py and
\* api/index.py a text rewritten without a configured remote service gets
\* exactly the local call; api/moderate.py calls no rewrite service at all.
C17_StagesInOrderOnce ==
  /\ StagesInOrder
  /\ (Rewritten /\ ~groq_configured /\ entry # "minimal_http")
       => (Len(calls) = 1 /\ calls[1].service = "local")
  /\ entry = "minimal_http" => calls = <<>>

\* C17 witness: the remote service answered a refusal, the local service was
\* called next and its candidate was returned
C17_Witness ==
  /\ entry = "main_http"
  /\ groq_configured
  /\ calls = <<[service |-> "remote", outcome |-> Answers(CandRefusal)],
               [service |-> "local", outcome |-> Answers(CandPolite)]>>
  /\ ppc = "responded"
  /\ response.rephrased = CandPolite

\* the fallback selector of the entry point's file
Fallback(t) ==
  IF entry \in MainEntries THEN create_generic_polite_message(t)
  ELSE api_create_generic_polite_message(t)

\* the service was called and its answer, once normalized, passes the validator
Acceptable(service) ==
  /\ CallsOf(service) # {}
  /\ CallOutcome(service).kind = "text"
  /\ Validated(text, Normalized(CallOutcome(service).raw))

\* C18: the text returned by the rewrite chain of main.py and api/index.py is
\* the normalized remote answer when that is valid (and then no local call is
\* made); otherwise the normalized local answer when that is valid; otherwise
\* the fallback message of the text.  Whatever is returned other than the
\* fallback message passes the validator.
C18_FirstAcceptableStage ==
  (Rewritten /\ entry \in MainEntries \cup {"index_http"})
    => /\ RewriteResult =
            (IF Acceptable("remote") THEN Normalized(CallOutcome("remote").raw)
             ELSE IF Acceptable("local") THEN Normalized(CallOutcome("local").raw)
             ELSE Fallback(text))
       /\ Acceptable("remote") => CallsOf("local") = {}
       /\ RewriteResult # Fallback(text) => Validated(text, RewriteResult)

\* C18 witness: the remote answer "Hmm" is too short, the local answer is a
\* refusal, and the insult-category fallback message is returned
C18_Witness ==
  /\ entry = "main_http"
  /\ text = TxtStupid
  /\ calls = <<[service |-> "remote", outcome |-> Answers(CandShort)],
               [service |-> "local", outcome |-> Answers(CandRefusal)]>>
  /\ ppc = "responded"
  /\ response.rephrased = MsgDisagree

\* C19: a broadcast changes no manager's list and calls disconnect for no
\* connection while it goes from one send_text to the next, nor when it
\* starts; it removes connections only in the step in which it returns, when
\* its iterator has reached the end of the list, and then only connections it
\* attempted and whose send did not return.
C19_PruneAfterSweep ==
  [][\A w \in WebSockets :
       /\ (hpc'[w] = "send" /\ (SendEnds(w) \/ hpc[w] = "receive"))
            => /\ active_connections' = active_connections
               /\ disconnect_calls' = disconnect_calls
       /\ BroadcastReturns(w)
            => /\ iter[w] >= Len(active_connections[endpoint[w]])
               /\ \A c \in WebSockets :
                    (/\ in_list(active_connections[endpoint[w]], c)
                     /\ ~in_list(active_connections'[endpoint[w]], c))
                      => /\ in_list(sweep'[w].attempted, c)
                         /\ ~in_list(sweep'[w].delivered, c)
    ]_vars

\* C19 witness: the send to connection 1 has failed and handler 2's broadcast
\* is at its next send_text, with connection 1 still in the list
C19_Witness ==
  /\ hpc[2] = "send"
  /\ disconnected[2] = <<1>>
  /\ current[2] = 2
  /\ active_connections[endpoint[2]] = <<1, 2>>
  /\ disconnect_calls[1] = 0

\* C20 as claimed: on every path, a message whose score is at most the
\* threshold (0.5 included) causes no call of the remote or local rewrite
\* service.
C20_NoRewriteWithinThreshold ==
  (toxicity_scores.kind = "value" /\ toxicity_scores.v <= 5000000)
    => (calls = <<>> /\ ppc \notin {"remote", "local"})

\* C21: POST /moderate of main.py and api/index.py decides on the unrounded
\* score and rounds only the reported one: the reported score is the scorer's
\* value to the nearest thousandth, and allowed is TRUE exactly when the
\* scorer's value itself is at most 0.5; so 0.5004 is reported as 0.5 and not
\* allowed, and 0.4996 is reported as 0.5 and allowed.
C21_ComparisonUnrounded ==
  (/\ ppc = "responded"
   /\ entry \in {"main_http", "index_http"}
   /\ toxicity_scores.kind = "value")
    => /\ (response.score * 10000 - toxicity_scores.v) \in -5000..5000
       /\ response.allowed <=> (toxicity_scores.v <= 5000000)
       /\ toxicity_scores.v = 5004000 => (response.score = 500 /\ ~response.allowed)
       /\ toxicity_scores.v = 4996000 => (response.score = 500 /\ response.allowed)

\* C21 witness: a score of 0.5004 is answered with allowed = FALSE and the
\* reported score 0.5
C21_Witness ==
  /\ ppc = "responded"
  /\ entry = "main_http"
  /\ toxicity_scores = ScorerAnswers(5004000)
  /\ response.score = 500
  /\ ~response.allowed
  /\ "rephrased" \in DOMAIN response

\* the answer "Rephrased: Polite: Hello there" without its first prefix: 'Polite: Hello there'
OnePrefixLeft ==
  <<"P","o","l","i","t","e",":"," ","H","e","l","l","o"," ","t","h","e","r","e">>

\* C22 as claimed: when a service answers "Rephrased: Polite: Hello there" for
\* another text than "Hello there" and the candidate is returned, only the
\* first prefix has been removed: the text returned is "Polite: Hello there".
C22_AtMostOnePrefix ==
  (/\ Rewritten
   /\ entry \in MainEntries \cup {"index_http"}
   /\ calls # <<>>
   /\ calls[Len(calls)].outcome = Answers(CandTwoPrefixes)
   /\ strip(text) # TxtHello)
    => RewriteResult = OnePrefixLeft

\* C23 as claimed: a text the rewrite chain returns as the remote or local
\* rewrite (anything but the fallback message) has at least 5 characters, in
\* every entry point.
C23_ShortCandidateRejected ==
  (/\ Rewritten
   /\ entry \in MainEntries \cup {"index_http"}
   /\ RewriteResult # Fallback(text))
    => Len(RewriteResult) >= 5

\* what /ws/chat decides for the same message and the same score
ChatDecision == chat_response(message_data, toxicity_score, <<>>).allowed

\* C24 as claimed: on the moderator stream the moderated flag is the negation
\* of the allowed flag the chat stream gives the same score, it is true exactly
\* when the score is above the threshold, and the final text is the original
\* text whenever the chat stream would allow the message.
C24_StreamsAgree ==
  (/\ ppc = "responded"
   /\ entry = "main_moderator"
   /\ "moderated" \in DOMAIN response)
    => /\ response.moderated <=> ~ChatDecision
       /\ response.moderated <=> (toxicity_score > TOXICITY_THRESHOLD)
       /\ ChatDecision => response.final = response.original


\* a step of the hub of endpoint e: one of its handlers moves (connect,
\* disconnect, a broadcast's send or return) or it takes an inbound message
Actor(e) ==
  \/ responded'[e] # responded[e]
  \/ \E w \in WebSockets :
       /\ endpoint[w] = e
       /\ hpc'[w] # hpc[w] \/ iter'[w] # iter[w]

\* C25: the two registries are independent.  A connection is only ever in the
\* list of the manager of its own endpoint, and a step of one hub (connect,
\* disconnect, broadcast) leaves the other manager's list as it was, makes no
\* broadcast call on it and delivers nothing to its subscribers.
C25_RegistriesIndependent ==
  [][
    /\ \A m \in Managers, c \in WebSockets :
         in_list(active_connections'[m], c) => endpoint[c] = m
    /\ \A e \in Managers, m \in Managers :
         (Actor(e) /\ m # e)
           => /\ active_connections'[m] = active_connections[m]
              /\ broadcasts'[m] = broadcasts[m]
              /\ \A c \in WebSockets :
                   in_list(active_connections[m], c) => inbox'[c] = inbox[c]
  ]_vars

\* C25 witness: a chat client connected, had its message broadcast to itself
\* and disconnected, while the moderator list kept its one subscriber, who
\* received nothing, and no broadcast was made on the moderator manager
C25_Witness ==
  \E a, b \in WebSockets :
    /\ endpoint[a] = "chat"
    /\ endpoint[b] = "moderator"
    /\ hpc[a] = "closed"
    /\ disconnect_calls[a] = 1
    /\ Len(inbox[a]) = 1
    /\ inbox[b] = <<>>
    /\ active_connections = [m \in Managers |-> IF m = "chat" THEN <<>> ELSE <<b>>]
    /\ broadcasts = [m \in Managers |-> IF m = "chat" THEN 1 ELSE 0]

\* the keywords of the list that occur in the text, each counted once
distinct_keywords(t) ==
  Cardinality({toxic_keywords[k] : k \in {i \in 1..Len(toxic_keywords) :
                                            contains(lower(t), toxic_keywords[i])}})

\* 0.0, 0.4, 0.6, 0.7, 0.9 for 0, 1, 2, 3, 4 or more keywords
keyword_score(n) ==
  IF n = 0 THEN 0
  ELSE IF n = 1 THEN 4000000
  ELSE IF n = 2 THEN 6000000
  ELSE IF n = 3 THEN 7000000
  ELSE 9000000

\* C26 as claimed: POST /moderate of api/moderate.py scores a text by the
\* number of toxic keywords it contains: one keyword scores 0.4 and is allowed,
\* two 0.6, three 0.7, four or more 0.9, whichever keywords they are.
C26_ScoreByKeywordCount ==
  (ppc = "responded" /\ entry = "minimal_http")
    => /\ toxicity_score = keyword_score(distinct_keywords(text))
       /\ response.score * 10000 = toxicity_score
       /\ distinct_keywords(text) = 1 => response.allowed
=============================================================================
